---- MODULE Spec2Model ----
(***************************************************************************)
(* The terminal session of src/src/components/home.tsx (HomePage): the     *)
(* input buffer, the scrollback, the command history, the recall cursor    *)
(* and the active view, driven by the key handler, the input's onChange    *)
(* and the blog view's navigate-back callback; and the front-matter parser *)
(* of src/src/components/blog.tsx.                                         *)
(*                                                                         *)
(* Spec          the session; line ids are left out                        *)
(* SpecDispatch  the session over all command names, one submission        *)
(* SpecView      the session over the view-switching commands              *)
(* SpecIds       the session with the id of every scrollback line          *)
(* SpecParser    parseMarkdownWithFrontmatter applied to bounded texts     *)
(* SpecHeader    the parser applied to header blocks                       *)
(* SpecRegistry  BlogPage mounted: loadBlogPosts over bounded sources      *)
(* SpecBlog      the session with BlogPage mounted and unmounted           *)
(*                                                                         *)
(* Strings are TLA+ strings; toLowerCase, trim, startsWith and join are    *)
(* computed character by character.                                        *)
(***************************************************************************)
EXTENDS Integers, Sequences, FiniteSets, TLC

VARIABLES
    currentInput,     \* useState('')           the input buffer
    history,          \* useState<TerminalLine[]>  the scrollback
    currentPage,      \* useState('home')       the active view
    commandHistory,   \* useState<string[]>     the submitted raw strings
    historyIndex,     \* useState(-1)           the recall cursor, 0-based
    lastKey,          \* the event the last step handled
    ups,              \* ArrowUp presses of the current run that started live
    downs,            \* ArrowDown presses that followed them
    clock,            \* Date.now() as last read, in milliseconds
    ids,              \* ids[i] is history[i].id (SpecIds; empty elsewhere)
    rawContent,       \* the text given to parseMarkdownWithFrontmatter
    parsed,           \* what it returned
    blogPosts,        \* BlogPage: the (slug, content) list of the mounted view
    posts,            \* useState<BlogPost[]>([])   the registry
    selectedPost,     \* useState<BlogPost | null>(null): << >> is null
    loading           \* useState(true)

\* The variables of the terminal session.
sessionVars == <<currentInput, history, currentPage, commandHistory, historyIndex,
                 lastKey, ups, downs>>

\* The variables of BlogPage; they hold the values of a view that is not
\* mounted in the specifications that leave the view out.
blogVars == <<blogPosts, posts, selectedPost, loading>>

\* The variables the session's specifications leave alone.
otherVars == <<clock, ids, rawContent, parsed, blogPosts, posts, selectedPost, loading>>

vars == <<currentInput, history, currentPage, commandHistory, historyIndex,
          lastKey, ups, downs, clock, ids, rawContent, parsed,
          blogPosts, posts, selectedPost, loading>>

----------------------------------------------------------------------------
(* Bounds *)

\* Size of a session: the submissions made plus the 'Possible completions'
\* lines present in the scrollback.
MaxSession == 3

\* The texts the user can bring into the input field by editing: nothing,
\* white space, a command in another case and padded, and a prefix of one
\* command that is no command itself (Tab completes it to blog).
EditTexts == {"", " ", " CLEAR ", "B"}

----------------------------------------------------------------------------
(* String functions of the JavaScript runtime *)

CharAt(s, i) == SubSeq(s, i, i)

ToLowerChar(c) ==
    CASE c = "A" -> "a"
      [] c = "B" -> "b"
      [] c = "C" -> "c"
      [] c = "D" -> "d"
      [] c = "E" -> "e"
      [] c = "F" -> "f"
      [] c = "G" -> "g"
      [] c = "H" -> "h"
      [] c = "I" -> "i"
      [] c = "J" -> "j"
      [] c = "K" -> "k"
      [] c = "L" -> "l"
      [] c = "M" -> "m"
      [] c = "N" -> "n"
      [] c = "O" -> "o"
      [] c = "P" -> "p"
      [] c = "Q" -> "q"
      [] c = "R" -> "r"
      [] c = "S" -> "s"
      [] c = "T" -> "t"
      [] c = "U" -> "u"
      [] c = "V" -> "v"
      [] c = "W" -> "w"
      [] c = "X" -> "x"
      [] c = "Y" -> "y"
      [] c = "Z" -> "z"
      [] OTHER -> c

RECURSIVE toLowerCase(_)
toLowerCase(s) ==
    IF s = "" THEN "" ELSE ToLowerChar(Head(s)) \o toLowerCase(Tail(s))

IsWhiteSpace(c) == c \in {" ", "\t", "\n", "\r"}

RECURSIVE trimStart(_)
trimStart(s) ==
    IF s = "" THEN ""
    ELSE IF IsWhiteSpace(Head(s)) THEN trimStart(Tail(s)) ELSE s

RECURSIVE trimEnd(_)
trimEnd(s) ==
    IF s = "" THEN ""
    ELSE IF IsWhiteSpace(CharAt(s, Len(s))) THEN trimEnd(SubSeq(s, 1, Len(s) - 1))
    ELSE s

\* Variant: nothing is trimmed.
trimNothing(s) == s

\* Variant: only leading white space is trimmed.
trimStartOnly(s) == trimStart(s)

trim(s) == trimEnd(trimStart(s))

startsWith(s, prefix) ==
    /\ Len(prefix) <= Len(s)
    /\ SubSeq(s, 1, Len(prefix)) = prefix

RECURSIVE join(_, _)
join(strs, sep) ==
    IF strs = <<>> THEN ""
    ELSE IF Len(strs) = 1 THEN strs[1]
    ELSE strs[1] \o sep \o join(Tail(strs), sep)

----------------------------------------------------------------------------
(* Terminal lines and the command table *)

Line(type, content) == [type |-> type, content |-> content]

\* Variant: foo is a command name as well.
validCommandsAndFoo ==
    <<"help", "whoami", "contact", "projects", "blog", "home", "clear", "ls", "pwd", "foo">>

validCommands ==
    <<"help", "whoami", "contact", "projects", "blog", "home", "clear", "ls", "pwd">>

isValidCommand(input) ==
    \E i \in 1..Len(validCommands) : validCommands[i] = trim(toLowerCase(input))

\* Variant: the empty input is not set apart.
getMatchingCommandsOfAny(input) ==
    LET prefix == trim(toLowerCase(input)) IN
    SelectSeq(validCommands, LAMBDA cmd : startsWith(toLowerCase(cmd), prefix))

getMatchingCommands(input) ==
    IF input = "" THEN <<>>
    ELSE LET prefix == trim(toLowerCase(input)) IN
         SelectSeq(validCommands, LAMBDA cmd : startsWith(toLowerCase(cmd), prefix))

welcomeLines ==
    << Line("output", "Welcome to my terminal portfolio. (Version 1.0.0)"),
       Line("output", "----"),
       Line("output", ""),
       Line("output", "This project's source code can be seen in this project's "),
       Line("accent", "GitHub repo: https://github.com/yagizklc/yagizklc.github.io"),
       Line("output", ""),
       Line("output", "----"),
       Line("output", ""),
       Line("output", "For a list of available commands, type 'help'.") >>

Prompt == "visitor@yagiz-terminal:~$ "

----------------------------------------------------------------------------
(* The scrollback's update queue: every setHistory call of one handler is   *)
(* queued and the queue is applied in call order before the next event.     *)

\* setHistory(prev => [...prev, line])
addToHistory(line) == [fn |-> "append", lines |-> <<line>>]

\* setHistory(value)
setHistory(value) == [fn |-> "value", lines |-> value]

\* Variant: a line is put in front of the scrollback.
ApplyUpdatePrepends(prev, update) ==
    IF update.fn = "append" THEN update.lines \o prev ELSE update.lines

ApplyUpdate(prev, update) ==
    IF update.fn = "append" THEN prev \o update.lines ELSE update.lines

\* Variant: the queue applied last call first.
RECURSIVE ApplyUpdatesReversed(_, _)
ApplyUpdatesReversed(prev, queue) ==
    IF queue = <<>> THEN prev
    ELSE ApplyUpdate(ApplyUpdatesReversed(prev, Tail(queue)), Head(queue))

RECURSIVE ApplyUpdates(_, _)
ApplyUpdates(prev, queue) ==
    IF queue = <<>> THEN prev
    ELSE ApplyUpdates(ApplyUpdate(prev, Head(queue)), Tail(queue))

\* Variant: the error line names the normalized text.
CommandNotFoundNormalized(cmd, command) ==
    Line("error", "Command not found: " \o cmd \o ". Type 'help' for available commands.")

\* The error line of the switch's default case.
CommandNotFound(cmd, command) ==
    Line("error", "Command not found: " \o command \o ". Type 'help' for available commands.")

\* The scrollback updates the switch of executeCommand queues, in call order.
SwitchUpdates(cmd, command) ==
    CASE cmd = "help" ->
           << addToHistory(Line("output", "Available commands:")),
              addToHistory(Line("help", "  whoami     - Display personal information")),
              addToHistory(Line("help", "  projects   - View my projects")),
              addToHistory(Line("help", "  blog       - Read my blog posts")),
              addToHistory(Line("help", "  contact    - Get contact information")),
              addToHistory(Line("help", "  clear      - Clear terminal")),
              addToHistory(Line("help", "  home       - Return to home page")) >>
      [] cmd = "whoami" ->
           << addToHistory(Line("output", "Yagiz Kilicarslan")),
              addToHistory(Line("output", "Software Engineer & Backend Lead at ArealAI")),
              addToHistory(Line("output", "Passionate about scalable systems and clean code")) >>
      \* (the pictographs that open the accent lines are left out)
      [] cmd = "contact" ->
           << addToHistory(Line("output", "Contact Information:")),
              addToHistory(Line("accent", "yagiz.kilicarslan1@gmail.com")),
              addToHistory(Line("output", "")),
              addToHistory(Line("output", "Find me online:")),
              addToHistory(Line("accent", "https://github.com/yagizklc")),
              addToHistory(Line("accent", "https://linkedin.com/in/yagizkilicarslan")),
              addToHistory(Line("accent", "https://twitter.com/yagizklc")),
              addToHistory(Line("output", "")),
              addToHistory(Line("output", "Feel free to reach out for collaborations!")) >>
      [] cmd = "projects" -> << addToHistory(Line("output", "Loading projects...")) >>
      [] cmd = "blog" -> << addToHistory(Line("output", "Loading blog posts...")) >>
      [] cmd = "home" -> << addToHistory(Line("output", "Returning to home...")) >>
      [] cmd = "clear" -> << setHistory(<<>>) >>
      [] cmd = "ls" ->
           << addToHistory(Line("output", "home/     projects/     blog/     contact.txt")) >>
      [] cmd = "pwd" -> << addToHistory(Line("output", "/home/yagiz/personal-website")) >>
      [] cmd = "" -> << >>
      [] OTHER -> << addToHistory(CommandNotFound(cmd, command)) >>

\* Variant: home does not switch the view.
SwitchPageWithoutHome(cmd, page) ==
    CASE cmd = "projects" -> "projects"
      [] cmd = "blog" -> "blog"
      [] OTHER -> page

\* The active view the switch of executeCommand leaves.
SwitchPage(cmd, page) ==
    CASE cmd = "projects" -> "projects"
      [] cmd = "blog" -> "blog"
      [] cmd = "home" -> "home"
      [] OTHER -> page

\* Variant: the echo shows the normalized text.
CommandUpdatesEchoNormalized(command) ==
    << addToHistory(Line("command", Prompt \o trim(toLowerCase(command)))) >>
        \o SwitchUpdates(trim(toLowerCase(command)), command)

\* The whole queue of one submission: the echo, then the switch's updates.
CommandUpdates(command) ==
    << addToHistory(Line("command", Prompt \o command)) >>
        \o SwitchUpdates(trim(toLowerCase(command)), command)

\* Variant: the recall cursor is not reset.
executeCommandKeepsCursor(command) ==
    /\ history' = ApplyUpdates(history, CommandUpdates(command))
    /\ commandHistory' = Append(commandHistory, command)
    /\ historyIndex' = historyIndex
    /\ currentPage' = SwitchPage(trim(toLowerCase(command)), currentPage)

\* Variant: the normalized text is stored in the command history.
executeCommandStoresNormalized(command) ==
    /\ history' = ApplyUpdates(history, CommandUpdates(command))
    /\ commandHistory' = Append(commandHistory, trim(toLowerCase(command)))
    /\ historyIndex' = -1
    /\ currentPage' = SwitchPage(trim(toLowerCase(command)), currentPage)

\* Variant: clear also empties the command history.
executeCommandClearForgets(command) ==
    /\ history' = ApplyUpdates(history, CommandUpdates(command))
    /\ commandHistory' = IF trim(toLowerCase(command)) = "clear" THEN <<command>>
                         ELSE Append(commandHistory, command)
    /\ historyIndex' = -1
    /\ currentPage' = SwitchPage(trim(toLowerCase(command)), currentPage)

executeCommand(command) ==
    /\ history' = ApplyUpdates(history, CommandUpdates(command))
    /\ commandHistory' = Append(commandHistory, command)
    /\ historyIndex' = -1
    /\ currentPage' = SwitchPage(trim(toLowerCase(command)), currentPage)

----------------------------------------------------------------------------
(* The recall cursor *)

Max(a, b) == IF a >= b THEN a ELSE b
Min(a, b) == IF a <= b THEN a ELSE b

\* Variant: from live, one past the last entry.
UpIndexFromLength(index, length) ==
    IF index = -1 THEN length ELSE Max(0, index - 1)

\* Variant: no clamp at the oldest entry.
UpIndexNoClamp(index, length) ==
    IF index = -1 THEN length - 1 ELSE index - 1

\* ArrowUp: the cursor to move to (0-based), given the cursor and the length.
UpIndex(index, length) ==
    IF index = -1 THEN length - 1 ELSE Max(0, index - 1)

\* Variant: no clamp at the newest entry.
DownIndexNoMin(index, length) == index + 1

\* ArrowDown: the candidate cursor (0-based).
DownIndex(index, length) == Min(length - 1, index + 1)

\* The value of an array read outside the array.
Undefined == "<undefined>"

\* commandHistory[i] of the code, whose indices start at 0.
EntryAt(cmds, i) == IF 0 <= i /\ i < Len(cmds) THEN cmds[i + 1] ELSE Undefined

\* Number of 'Possible completions' lines in a scrollback.
TabLines(lines) ==
    Cardinality({i \in 1..Len(lines) :
                    startsWith(lines[i].content, "Possible completions: ")})

SessionSize == Len(commandHistory) + TabLines(history)

----------------------------------------------------------------------------
(* Initial state: HomePage mounted, the welcome effect applied *)

SessionInit ==
    /\ currentInput = ""
    /\ history = welcomeLines
    /\ currentPage = "home"
    /\ commandHistory = <<>>
    /\ historyIndex = -1
    /\ lastKey = "none"
    /\ ups = 0
    /\ downs = 0

\* Nothing parsed yet.
NotParsed == [frontmatter |-> << >>, content |-> "<none>"]

\* BlogPage is not mounted.
NotMounted ==
    /\ blogPosts = << >>
    /\ posts = << >>
    /\ selectedPost = << >>
    /\ loading = TRUE

Init ==
    /\ SessionInit
    /\ clock = 0
    /\ ids = << >>
    /\ rawContent = ""
    /\ parsed = NotParsed
    /\ NotMounted

----------------------------------------------------------------------------
(* Events *)

\* handleKeyDown, e.key === 'Enter': the session's part
KeyEnter ==
    /\ SessionSize < MaxSession
    /\ executeCommand(currentInput)
    /\ currentInput' = ""
    /\ lastKey' = "Enter"
    /\ ups' = 0
    /\ downs' = 0

Enter ==
    /\ KeyEnter
    /\ UNCHANGED otherVars

\* Variant: Tab returns the recall cursor to live.
KeyTabResetsCursor ==
    LET matches == getMatchingCommands(currentInput) IN
    /\ \/ /\ Len(matches) = 1
          /\ currentInput' = matches[1]
          /\ history' = history
       \/ /\ Len(matches) > 1
          /\ SessionSize < MaxSession
          /\ history' = ApplyUpdates(history,
                 << addToHistory(Line("output",
                        "Possible completions: " \o join(matches, ", "))) >>)
          /\ currentInput' = currentInput
       \/ /\ Len(matches) = 0
          /\ currentInput' = currentInput
          /\ history' = history
    /\ lastKey' = "Tab"
    /\ ups' = 0
    /\ downs' = 0
    /\ historyIndex' = -1
    /\ UNCHANGED <<currentPage, commandHistory>>

\* handleKeyDown, e.key === 'Tab': the session's part
KeyTab ==
    LET matches == getMatchingCommands(currentInput) IN
    /\ \/ /\ Len(matches) = 1
          /\ currentInput' = matches[1]
          /\ history' = history
       \/ /\ Len(matches) > 1
          /\ SessionSize < MaxSession
          /\ history' = ApplyUpdates(history,
                 << addToHistory(Line("output",
                        "Possible completions: " \o join(matches, ", "))) >>)
          /\ currentInput' = currentInput
       \/ /\ Len(matches) = 0
          /\ currentInput' = currentInput
          /\ history' = history
    /\ lastKey' = "Tab"
    /\ ups' = 0
    /\ downs' = 0
    /\ UNCHANGED <<currentPage, commandHistory, historyIndex>>

Tab ==
    /\ KeyTab
    /\ UNCHANGED otherVars

\* handleKeyDown, e.key === 'ArrowUp'
ArrowUp ==
    /\ IF Len(commandHistory) > 0
       THEN LET newIndex == UpIndex(historyIndex, Len(commandHistory)) IN
            /\ historyIndex' = newIndex
            /\ currentInput' = EntryAt(commandHistory, newIndex)
       ELSE UNCHANGED <<historyIndex, currentInput>>
    /\ lastKey' = "ArrowUp"
    \* a run starts with an ArrowUp pressed live and has at most as many
    \* presses as there are entries
    /\ ups' = IF Len(commandHistory) = 0 THEN 0
              ELSE IF historyIndex = -1 THEN 1
              ELSE IF ups >= 1 /\ downs = 0 /\ ups < Len(commandHistory) THEN ups + 1
              ELSE 0
    /\ downs' = 0
    /\ UNCHANGED <<history, currentPage, commandHistory>>
    /\ UNCHANGED otherVars

\* handleKeyDown, e.key === 'ArrowDown'
ArrowDown ==
    /\ IF historyIndex # -1
       THEN LET newIndex == DownIndex(historyIndex, Len(commandHistory)) IN
            IF newIndex = Len(commandHistory) - 1
            THEN /\ historyIndex' = -1
                 /\ currentInput' = ""
            ELSE /\ historyIndex' = newIndex
                 /\ currentInput' = EntryAt(commandHistory, newIndex)
       ELSE UNCHANGED <<historyIndex, currentInput>>
    /\ lastKey' = "ArrowDown"
    /\ ups' = IF ups >= 1 /\ downs < ups THEN ups ELSE 0
    /\ downs' = IF ups >= 1 /\ downs < ups THEN downs + 1 ELSE 0
    /\ UNCHANGED <<history, currentPage, commandHistory>>
    /\ UNCHANGED otherVars

\* <input onChange={(e) => setCurrentInput(e.target.value)}>
Change(text) ==
    /\ currentInput' = text
    /\ lastKey' = "Change"
    /\ ups' = 0
    /\ downs' = 0
    /\ UNCHANGED <<history, currentPage, commandHistory, historyIndex>>
    /\ UNCHANGED otherVars

\* onNavigateBack={() => setCurrentPage('home')}: the session's part
onNavigateBack ==
    /\ currentPage = "blog"
    /\ currentPage' = "home"
    /\ lastKey' = "NavigateBack"
    /\ ups' = 0
    /\ downs' = 0
    /\ UNCHANGED <<currentInput, history, commandHistory, historyIndex>>

\* Variant: the button submits home.
NavigateBackSubmitsHome ==
    /\ currentPage = "blog"
    /\ executeCommand("home")
    /\ lastKey' = "NavigateBack"
    /\ ups' = 0
    /\ downs' = 0
    /\ UNCHANGED currentInput
    /\ UNCHANGED otherVars

\* <BlogPage onNavigateBack={() => setCurrentPage('home')} />, rendered
\* only while the active view is blog
NavigateBack ==
    /\ onNavigateBack
    /\ UNCHANGED otherVars

Next ==
    \/ Enter
    \/ Tab
    \/ ArrowUp
    \/ ArrowDown
    \/ \E text \in EditTexts : Change(text)
    \/ NavigateBack

Spec == Init /\ [][Next]_vars

----------------------------------------------------------------------------
(* The session over all command names *)

\* Size of a session of SpecDispatch.
MaxDispatch == 1

\* Every command name, as it is or in another case and padded; texts that
\* are no command; white space; a prefix of two commands.
DispatchTexts ==
    { "help", "whoami", "contact", "projects", "blog", "home", "clear", "ls", "pwd",
      " HELP ", "WhoAmI", "Contact ", " Projects", "BLOG", "Home ", " Clear", "LS ",
      " pwd ", "Foo", "help me", "blogs", "C", "  " }

DispatchEnter ==
    /\ SessionSize < MaxDispatch
    /\ Enter

DispatchTab ==
    /\ Len(getMatchingCommands(currentInput)) > 1 => SessionSize < MaxDispatch
    /\ Tab

NextDispatch ==
    \/ DispatchEnter
    \/ DispatchTab
    \/ ArrowUp
    \/ ArrowDown
    \/ \E text \in DispatchTexts : Change(text)
    \/ NavigateBack

SpecDispatch == Init /\ [][NextDispatch]_vars

----------------------------------------------------------------------------
(* The session over the view-switching commands *)

\* Size of a session of SpecView.
MaxView == 2

ViewTexts == { "projects", "BLOG", " home ", "p" }

ViewEnter ==
    /\ SessionSize < MaxView
    /\ Enter

ViewTab ==
    /\ Len(getMatchingCommands(currentInput)) > 1 => SessionSize < MaxView
    /\ Tab

NextView ==
    \/ ViewEnter
    \/ ViewTab
    \/ ArrowUp
    \/ ArrowDown
    \/ \E text \in ViewTexts : Change(text)
    \/ NavigateBack

SpecView == Init /\ [][NextView]_vars

----------------------------------------------------------------------------
(* SpecIds: the session with line ids.                                     *)
(*                                                                         *)
(* addToHistory gives a line the id Date.now() + Math.random().  At        *)
(* today's epoch milliseconds a double has a fixed number of steps between *)
(* two integers (4096), so the sum is rounded onto that grid and a         *)
(* fraction close to 1 is rounded up to the next integer.  An id is kept   *)
(* here as milliseconds * FractionSteps + step, step in 0..FractionSteps.  *)

\* Steps of the id grid between two milliseconds.
FractionSteps == 2

\* Date.now() at mount; larger than the ids of the welcome lines.
StartTime == 10

\* Submissions plus completion lines of a session of SpecIds.
MaxIds == 1

IdsTexts == { "w", "c", "cl", "b" }

\* The ids 1..9 that the welcome effect writes.
welcomeIds == [i \in 1..Len(welcomeLines) |-> i * FractionSteps]

\* The ids n calls of addToHistory in one handler can produce when the
\* handler starts at millisecond t: Date.now() is read at every call and
\* may tick once on the way; Math.random() is any step.
FreshIds(t, n) ==
    { [i \in 1..n |-> (IF i > k THEN t + 1 ELSE t) * FractionSteps + q[i]] :
          k \in 0..n, q \in [1..n -> 0..FractionSteps] }

\* The number of functional updates in a queue.
RECURSIVE Appends(_)
Appends(queue) ==
    IF queue = << >> THEN 0
    ELSE (IF Head(queue).fn = "append" THEN 1 ELSE 0) + Appends(Tail(queue))

\* The ids of the scrollback after the queue: a functional update appends
\* the next fresh id, setHistory([]) leaves none.
RECURSIVE IdsAfter(_, _, _)
IdsAfter(prev, queue, fresh) ==
    IF queue = << >> THEN prev
    ELSE IF Head(queue).fn = "append"
    THEN IdsAfter(Append(prev, Head(fresh)), Tail(queue), Tail(fresh))
    ELSE IdsAfter(<< >>, Tail(queue), fresh)

InitIds ==
    /\ SessionInit
    /\ clock = StartTime
    /\ ids = welcomeIds
    /\ rawContent = ""
    /\ parsed = NotParsed
    /\ NotMounted

IdsEnter ==
    /\ SessionSize < MaxIds
    /\ KeyEnter
    /\ LET queue == CommandUpdates(currentInput) IN
       \E fresh \in FreshIds(clock + 1, Appends(queue)) :
           ids' = IdsAfter(ids, queue, fresh)
    /\ clock' = clock + 2
    /\ UNCHANGED <<rawContent, parsed, blogVars>>

IdsTab ==
    /\ Len(getMatchingCommands(currentInput)) > 1 => SessionSize < MaxIds
    /\ KeyTab
    /\ IF Len(getMatchingCommands(currentInput)) > 1
       THEN /\ \E fresh \in FreshIds(clock + 1, 1) : ids' = ids \o fresh
            /\ clock' = clock + 2
       ELSE UNCHANGED <<clock, ids>>
    /\ UNCHANGED <<rawContent, parsed, blogVars>>

NextIds ==
    \/ IdsEnter
    \/ IdsTab
    \/ ArrowUp
    \/ ArrowDown
    \/ \E text \in IdsTexts : Change(text)
    \/ NavigateBack

SpecIds == InitIds /\ [][NextIds]_vars

----------------------------------------------------------------------------
(* parseMarkdownWithFrontmatter of src/src/components/blog.tsx             *)

\* s.indexOf(c) for one character c: 0-based, -1 when c does not occur.
indexOf(s, c) ==
    LET at == {i \in 1..Len(s) : CharAt(s, i) = c} IN
    IF at = {} THEN -1 ELSE (CHOOSE i \in at : \A j \in at : i <= j) - 1

\* s.slice(from, to): 0-based, to exclusive.
slice(s, from, to) == SubSeq(s, from + 1, to)

endsWith(s, suffix) ==
    /\ Len(suffix) <= Len(s)
    /\ SubSeq(s, Len(s) - Len(suffix) + 1, Len(s)) = suffix

\* s.split(sep) for one character sep.
RECURSIVE split(_, _)
split(s, sep) ==
    LET i == indexOf(s, sep) IN
    IF i = -1 THEN << s >>
    ELSE << slice(s, 0, i) >> \o split(slice(s, i + 1, Len(s)), sep)

\* The last position of the run of white space that starts at position i;
\* i - 1 when there is none.
RECURSIVE WhiteSpaceEnd(_, _)
WhiteSpaceEnd(s, i) ==
    IF i <= Len(s) /\ IsWhiteSpace(CharAt(s, i))
    THEN WhiteSpaceEnd(s, i + 1)
    ELSE i - 1

\* Variant: the end of the input closes a delimiter as a newline does.
DelimiterEndsAtEndOfInput(s, i) ==
    IF i + 2 <= Len(s) /\ SubSeq(s, i, i + 2) = "---"
    THEN {p \in (i + 3)..WhiteSpaceEnd(s, i + 3) :
            CharAt(s, p) = "\n" \/ p = Len(s)}
    ELSE {}

\* ---\s*\n at position i: the positions of the newline that can end it.
\* \s* is greedy and gives back, so every newline of the run of white space
\* after the dashes is one.
DelimiterEnds(s, i) ==
    IF i + 2 <= Len(s) /\ SubSeq(s, i, i + 2) = "---"
    THEN {p \in (i + 3)..WhiteSpaceEnd(s, i + 3) : CharAt(s, p) = "\n"}
    ELSE {}

Largest(S) == CHOOSE x \in S : \A y \in S : y <= x

Smallest(S) == CHOOSE x \in S : \A y \in S : x <= y

\* content.match(/^---\s*\n([\s\S]*?)\n---\s*\n([\s\S]*)$/): the first match
\* in the order of backtracking.  The opening \s* takes as much as it can,
\* group 1 as little as it can, the closing \s* as much as it can; group 2
\* is the rest of the input.
frontmatterMatch(s) ==
    LET closings(p) == {c \in (p + 1)..Len(s) :
                           CharAt(s, c) = "\n" /\ DelimiterEnds(s, c + 1) # {}}
        openings == {p \in DelimiterEnds(s, 1) : closings(p) # {}}
    IN
    IF openings = {} THEN [matched |-> FALSE, g1 |-> "", g2 |-> ""]
    ELSE LET p == Largest(openings)
             c == Smallest(closings(p))
             q == Largest(DelimiterEnds(s, c + 1))
         IN [matched |-> TRUE,
             g1 |-> SubSeq(s, p + 1, c - 1),
             g2 |-> SubSeq(s, q + 1, Len(s))]

\* A header value: a string, or the array of a bracketed list.
StringValue(value) == [array |-> FALSE, items |-> << value >>]

ArrayValue(items) == [array |-> TRUE, items |-> items]

IsQuote(c) == c \in {"\"", "'"}

\* item.replace(/^["']|["']$/g, '')
stripQuotes(item) ==
    LET a == IF item # "" /\ IsQuote(Head(item)) THEN Tail(item) ELSE item IN
    IF a # "" /\ IsQuote(CharAt(a, Len(a))) THEN SubSeq(a, 1, Len(a) - 1) ELSE a

\* The value of a header line after its quotes are removed.
unquote(value) ==
    IF \/ startsWith(value, "\"") /\ endsWith(value, "\"")
       \/ startsWith(value, "'") /\ endsWith(value, "'")
    THEN SubSeq(value, 2, Len(value) - 1)
    ELSE value

\* Variant: the quotes around a value are kept.
headerValueKeepsQuotes(line) ==
    LET colonIndex == indexOf(line, ":")
        value == trim(slice(line, colonIndex + 1, Len(line)))
    IN
    IF startsWith(value, "[") /\ endsWith(value, "]")
    THEN LET items == split(SubSeq(value, 2, Len(value) - 1), ",") IN
         ArrayValue([i \in 1..Len(items) |-> stripQuotes(trim(items[i]))])
    ELSE StringValue(value)

\* What a header line with a colon after its first character stores.
headerValue(line) ==
    LET colonIndex == indexOf(line, ":")
        value == unquote(trim(slice(line, colonIndex + 1, Len(line))))
    IN
    IF startsWith(value, "[") /\ endsWith(value, "]")
    THEN LET items == split(SubSeq(value, 2, Len(value) - 1), ",") IN
         ArrayValue([i \in 1..Len(items) |-> stripQuotes(trim(items[i]))])
    ELSE StringValue(value)

\* frontmatterText.split('\n').forEach(...): a later line replaces the
\* value an earlier line stored under the same key.
RECURSIVE parseHeader(_, _)
parseHeader(lines, frontmatter) ==
    IF lines = << >> THEN frontmatter
    ELSE LET line == Head(lines)
             colonIndex == indexOf(line, ":")
         IN
         IF colonIndex > 0
         THEN parseHeader(Tail(lines),
                  (trim(slice(line, 0, colonIndex)) :> headerValue(line)) @@ frontmatter)
         ELSE parseHeader(Tail(lines), frontmatter)

parseMarkdownWithFrontmatter(content) ==
    LET match == frontmatterMatch(content) IN
    IF match.matched
    THEN [frontmatter |-> parseHeader(split(match.g1, "\n"), << >>),
          content |-> match.g2]
    ELSE [frontmatter |-> << >>, content |-> content]

----------------------------------------------------------------------------
(* SpecParser: the parser applied to texts of a few lines.                 *)

\* Lines of a text.
MaxLines == 5

HeaderLines == { "title: \"A\"", "tags: [a, b]" }

ParserLines == HeaderLines \cup { "---", "--- ", "", "BODY", " B" }

\* The lines joined by newlines; a last line that is empty ends the text
\* with a newline.
ParserTexts ==
    { join(lines, "\n") :
          lines \in UNION { [1..n -> ParserLines] : n \in 0..MaxLines } }

InitParser ==
    /\ SessionInit
    /\ clock = 0
    /\ ids = << >>
    /\ rawContent \in ParserTexts
    /\ parsed = NotParsed
    /\ NotMounted

Parse ==
    /\ parsed = NotParsed
    /\ parsed' = parseMarkdownWithFrontmatter(rawContent)
    /\ UNCHANGED <<sessionVars, clock, ids, rawContent, blogVars>>

NextParser == Parse

SpecParser == InitParser /\ [][NextParser]_vars

----------------------------------------------------------------------------
(* SpecHeader: the parser applied to a header block of a few lines between *)
(* the delimiter lines, followed by a body.                                *)

\* Lines of a header block.
MaxHeader == 3

HeaderRuleLines ==
    { "title: \"A\"", "title: 'B'", "tags: [a, \"b\" ,'c']", " time :  10:30 ",
      "tags: plain", "nocolon", ":x" }

HeaderTexts ==
    { join(<< "---" >> \o block \o << "---", "BODY" >>, "\n") :
          block \in UNION { [1..n -> HeaderRuleLines] : n \in 1..MaxHeader } }

InitHeader ==
    /\ SessionInit
    /\ clock = 0
    /\ ids = << >>
    /\ rawContent \in HeaderTexts
    /\ parsed = NotParsed
    /\ NotMounted

NextHeader == Parse

SpecHeader == InitHeader /\ [][NextHeader]_vars

----------------------------------------------------------------------------
(* BlogPage of src/src/components/blog.tsx: the registry and the view      *)

\* The slugs of blogPosts, in the order of the list.
blogSlugs ==
    << "building-scalable-backends", "optimizing-database-queries", "secure-api-design" >>

\* value || fallback: the empty string is falsy, an array never is.
Falsy(value) == ~value.array /\ value.items[1] = ""

\* Variant: the header is not looked at.
orDefaultOnly(frontmatter, key, default) == default

\* parsed.frontmatter[key] || default
orDefault(frontmatter, key, default) ==
    IF key \in DOMAIN frontmatter /\ ~Falsy(frontmatter[key])
    THEN frontmatter[key]
    ELSE default

\* The record that loadBlogPosts pushes for a list entry whose content is
\* a string.
BlogPost(post) ==
    LET result == parseMarkdownWithFrontmatter(post.content) IN
    [slug |-> post.slug,
     title |-> orDefault(result.frontmatter, "title", StringValue(post.slug)),
     date |-> orDefault(result.frontmatter, "date", StringValue("")),
     readTime |-> orDefault(result.frontmatter, "readTime", StringValue("")),
     excerpt |-> orDefault(result.frontmatter, "excerpt", StringValue("")),
     tags |-> orDefault(result.frontmatter, "tags", ArrayValue(<< >>)),
     content |-> result.content]

\* Variant: one entry that fails empties the list.
loadedPostsAllOrNothing(sources) ==
    IF \E i \in 1..Len(sources) : sources[i].content = Undefined
    THEN << >>
    ELSE [i \in 1..Len(sources) |-> BlogPost(sources[i])]

\* The loop of loadBlogPosts: content.match throws for a content that is
\* not a string; the inner catch logs it and the loop goes on.
loadedPosts(sources) ==
    LET fine == SelectSeq(sources, LAMBDA post : post.content # Undefined) IN
    [i \in 1..Len(fine) |-> BlogPost(fine[i])]

IsDigit(c) == c \in {"0", "1", "2", "3", "4", "5", "6", "7", "8", "9"}

DigitValue(c) ==
    CASE c = "0" -> 0 [] c = "1" -> 1 [] c = "2" -> 2 [] c = "3" -> 3 [] c = "4" -> 4
      [] c = "5" -> 5 [] c = "6" -> 6 [] c = "7" -> 7 [] c = "8" -> 8 [] c = "9" -> 9

\* The number a string of digits stands for.
RECURSIVE ToInteger(_)
ToInteger(s) ==
    IF s = "" THEN 0
    ELSE 10 * ToInteger(SubSeq(s, 1, Len(s) - 1)) + DigitValue(CharAt(s, Len(s)))

DaysInMonth(year, month) ==
    IF month = 2
    THEN (IF year % 4 = 0 /\ (year % 100 # 0 \/ year % 400 = 0) THEN 29 ELSE 28)
    ELSE IF month \in {4, 6, 9, 11} THEN 30 ELSE 31

\* new Date(s) is a valid date.  Of the formats Date accepts only the date
\* form YYYY-MM-DD is told apart; the sources hold no other.
IsValidDate(s) ==
    /\ Len(s) = 10
    /\ CharAt(s, 5) = "-"
    /\ CharAt(s, 8) = "-"
    /\ \A i \in {1, 2, 3, 4, 6, 7, 9, 10} : IsDigit(CharAt(s, i))
    /\ ToInteger(SubSeq(s, 6, 7)) \in 1..12
    /\ ToInteger(SubSeq(s, 9, 10)) \in
           1..DaysInMonth(ToInteger(SubSeq(s, 1, 4)), ToInteger(SubSeq(s, 6, 7)))

\* new Date(s).getTime() of a valid date, in days since 1970-01-01 (UTC):
\* the milliseconds are this number times 86400000, which is beyond the
\* integers of the checker.
getTime(s) ==
    LET year == ToInteger(SubSeq(s, 1, 4))
        month == ToInteger(SubSeq(s, 6, 7))
        day == ToInteger(SubSeq(s, 9, 10))
        y == IF month <= 2 THEN year - 1 ELSE year
        era == y \div 400
        yoe == y - era * 400
        doy == (153 * (IF month > 2 THEN month - 3 ELSE month + 9) + 2) \div 5 + day - 1
        doe == yoe * 365 + yoe \div 4 - yoe \div 100 + doy
    IN era * 146097 + doe - 719468

\* The string new Date(value) is given: an array is joined by commas.
DateString(value) == IF value.array THEN join(value.items, ",") ELSE value.items[1]

\* Variant: the oldest first.
compareOldestFirst(a, b) ==
    IF IsValidDate(DateString(a.date)) /\ IsValidDate(DateString(b.date))
    THEN [nan |-> FALSE,
          value |-> getTime(DateString(a.date)) - getTime(DateString(b.date))]
    ELSE [nan |-> TRUE, value |-> 0]

\* (a, b) => new Date(b.date).getTime() - new Date(a.date).getTime():
\* NaN when one of the two dates is invalid.
compare(a, b) ==
    IF IsValidDate(DateString(a.date)) /\ IsValidDate(DateString(b.date))
    THEN [nan |-> FALSE,
          value |-> getTime(DateString(b.date)) - getTime(DateString(a.date))]
    ELSE [nan |-> TRUE, value |-> 0]

\* loadedPosts.sort(compare).  The sort is stable and takes NaN for a tie.
\* With a comparison that returns NaN the order is left to the
\* implementation; the outcomes are the orders a comparison sort cannot
\* tell from a sorted one: every two neighbours are in order, or tied and
\* in the order of the list.  When no comparison is NaN this is the one
\* stable sorted order.
sortOutcomes(list) ==
    LET n == Len(list)
        inOrder(p) ==
            \A k \in 1..(n - 1) :
                LET c == compare(list[p[k]], list[p[k + 1]]) IN
                IF c.nan \/ c.value = 0 THEN p[k] < p[k + 1] ELSE c.value < 0
    IN
    { [k \in 1..n |-> list[p[k]]] :
          p \in {q \in [1..n -> 1..n] :
                    /\ \A i, j \in 1..n : i # j => q[i] # q[j]
                    /\ inOrder(q)} }

\* BlogPage mounts: the state of useState, and blogPosts of this build.
Mount(sources) ==
    /\ blogPosts' = sources
    /\ posts' = << >>
    /\ selectedPost' = << >>
    /\ loading' = TRUE

\* BlogPage unmounts: its state is gone.
Unmount ==
    /\ blogPosts' = << >>
    /\ posts' = << >>
    /\ selectedPost' = << >>
    /\ loading' = TRUE

\* useEffect(() => { loadBlogPosts() }, []): the loop, the sort, setPosts,
\* and setLoading(false) in the finally block.
Load ==
    /\ currentPage = "blog"
    /\ loading
    /\ posts' \in sortOutcomes(loadedPosts(blogPosts))
    /\ loading' = FALSE
    /\ UNCHANGED <<sessionVars, clock, ids, rawContent, parsed, blogPosts, selectedPost>>

\* openPost, by a click on a post of the list view; the list view is
\* rendered when loading is false and no post is selected.
openPost(i) ==
    /\ currentPage = "blog"
    /\ ~loading
    /\ selectedPost = << >>
    /\ i \in 1..Len(posts)
    /\ selectedPost' = << posts[i] >>
    /\ UNCHANGED <<sessionVars, clock, ids, rawContent, parsed, blogPosts, posts, loading>>

\* closePost, by the button of the post view.
closePost ==
    /\ currentPage = "blog"
    /\ ~loading
    /\ selectedPost # << >>
    /\ selectedPost' = << >>
    /\ UNCHANGED <<sessionVars, clock, ids, rawContent, parsed, blogPosts, posts, loading>>

----------------------------------------------------------------------------
(* SpecRegistry: BlogPage just mounted by a submission of blog, over       *)
(* source lists of three texts.                                            *)

\* A source text: a header block, a blank line and a body.
Source(header) == join(<< "---" >> \o header \o << "---", "", "BODY" >>, "\n")

Dated15 ==
    Source(<< "title: \"Building\"", "date: \"2024-01-15\"", "readTime: \"5 min read\"",
              "excerpt: \"Exploring\"", "tags: [\"backend\", \"scalability\"]" >>)

Dated08 == Source(<< "title: \"Optimizing\"", "date: \"2024-01-08\"" >>)

Dated20 == Source(<< "title: \"Security\"", "date: \"2023-12-20\"" >>)

EmptyTitle08 == Source(<< "title: \"\"", "date: \"2024-01-08\"" >>)

BadDate == Source(<< "title: \"Draft\"", "date: soon" >>)

NoFrontMatter == "# Notes"

RegistryContents ==
    { Dated15, Dated08, Dated20, EmptyTitle08, BadDate, NoFrontMatter, Undefined }

RegistrySources ==
    { [i \in 1..Len(blogSlugs) |-> [slug |-> blogSlugs[i], content |-> c[i]]] :
          c \in [1..Len(blogSlugs) -> RegistryContents] }

\* The session after blog was typed and submitted in the initial state.
InitRegistry ==
    /\ currentInput = ""
    /\ history = ApplyUpdates(welcomeLines, CommandUpdates("blog"))
    /\ currentPage = "blog"
    /\ commandHistory = << "blog" >>
    /\ historyIndex = -1
    /\ lastKey = "Enter"
    /\ ups = 0
    /\ downs = 0
    /\ clock = 0
    /\ ids = << >>
    /\ rawContent = ""
    /\ parsed = NotParsed
    /\ blogPosts \in RegistrySources
    /\ posts = << >>
    /\ selectedPost = << >>
    /\ loading = TRUE

NextRegistry ==
    \/ Load
    \/ \E i \in 1..Len(blogSlugs) : openPost(i)
    \/ closePost

SpecRegistry == InitRegistry /\ [][NextRegistry]_vars

\* A step that ends the loading of a mounted view.
LoadEnds ==
    /\ currentPage = "blog"
    /\ loading
    /\ loading' = FALSE

\* The effect runs after the first render of the mounted view: the step
\* that ends loading is taken when it can be.  It is a step of Load, which
\* can be taken whenever the view is loading, since sortOutcomes is never
\* empty.
SpecRegistryLive == SpecRegistry /\ WF_loading(LoadEnds)

----------------------------------------------------------------------------
(* SpecBlog: the session with BlogPage mounted when the active view        *)
(* becomes blog and unmounted when it leaves blog.                         *)

\* Submissions of a session of SpecBlog.
MaxBlog == 3

BlogTexts == { "blog", "home" }

BlogSources ==
    { [i \in 1..Len(blogSlugs) |-> [slug |-> blogSlugs[i], content |-> c[i]]] :
          c \in { << Dated15, Dated08, Dated20 >>, << NoFrontMatter, Undefined, Dated15 >> } }

\* Variant: the view keeps its state while it is away.
BlogEnterKeepsState ==
    /\ SessionSize < MaxBlog
    /\ KeyEnter
    /\ IF currentPage # "blog" /\ currentPage' = "blog" /\ blogPosts = << >>
       THEN \E sources \in BlogSources : Mount(sources)
       ELSE UNCHANGED blogVars
    /\ UNCHANGED <<clock, ids, rawContent, parsed>>

\* handleKeyDown, e.key === 'Enter', and what the new active view mounts
\* and unmounts: {currentPage !== 'home' && renderContent()}.
BlogEnter ==
    /\ SessionSize < MaxBlog
    /\ KeyEnter
    /\ IF currentPage # "blog" /\ currentPage' = "blog"
       THEN \E sources \in BlogSources : Mount(sources)
       ELSE IF currentPage = "blog" /\ currentPage' # "blog"
       THEN Unmount
       ELSE UNCHANGED blogVars
    /\ UNCHANGED <<clock, ids, rawContent, parsed>>

\* The navigate-back buttons of the post view and of the list view; the
\* loading screen has none.
BlogNavigateBack ==
    /\ ~loading
    /\ onNavigateBack
    /\ Unmount
    /\ UNCHANGED <<clock, ids, rawContent, parsed>>

NextBlog ==
    \/ BlogEnter
    \/ \E text \in BlogTexts : Change(text)
    \/ Load
    \/ \E i \in 1..Len(blogSlugs) : openPost(i)
    \/ closePost
    \/ BlogNavigateBack

SpecBlog == Init /\ [][NextBlog]_vars

----------------------------------------------------------------------------
(* Properties *)

\* The session state the user sees, without the bookkeeping of events.
session == <<currentInput, history, currentPage, commandHistory, historyIndex>>

\* C1: in every reachable state the recall cursor is the sentinel -1 or an
\* index i with 0 <= i < length of the command history.
C1_RecallCursorValid ==
    \/ historyIndex = -1
    \/ /\ 0 <= historyIndex
       /\ historyIndex < Len(commandHistory)

\* C1: recalling the middle one of three entries, reached by ArrowDown.
C1_Witness ==
    /\ lastKey = "ArrowDown"
    /\ Len(commandHistory) = 3
    /\ historyIndex = 1

\* C2: ArrowDown changes nothing when live; from the last index it returns
\* to live with an empty buffer; from an index i below the last it moves to
\* i+1 and shows that entry (from last-1 the most recent entry, not an
\* empty buffer).
C2_RecallNext ==
    [][lastKey' = "ArrowDown" =>
          IF historyIndex = -1
          THEN session' = session
          ELSE IF historyIndex = Len(commandHistory) - 1
          THEN /\ historyIndex' = -1
               /\ currentInput' = ""
          ELSE /\ historyIndex' = historyIndex + 1
               /\ currentInput' = commandHistory[historyIndex + 2]
      ]_vars

\* C3: ArrowUp changes nothing with an empty command history; from live it
\* recalls the last entry; from index i it recalls index max(0, i-1); each
\* time the recalled entry is copied into the buffer.  Hence after n presses
\* that started live (1 <= n <= length) the buffer is the n-th most recent
\* entry.
C3_RecallPrevious ==
    [][lastKey' = "ArrowUp" =>
          /\ IF Len(commandHistory) = 0
             THEN session' = session
             ELSE IF historyIndex = -1
             THEN /\ historyIndex' = Len(commandHistory) - 1
                  /\ currentInput' = commandHistory[Len(commandHistory)]
             ELSE /\ historyIndex' = (IF historyIndex = 0 THEN 0 ELSE historyIndex - 1)
                  /\ currentInput' = commandHistory[historyIndex' + 1]
          /\ (ups' >= 1 /\ downs' = 0) =>
                 /\ ups' <= Len(commandHistory)
                 /\ currentInput' = commandHistory[Len(commandHistory) - ups' + 1]
      ]_vars

\* C3: three presses from live over three entries show the oldest entry.
C3_Witness ==
    /\ lastKey = "ArrowUp"
    /\ ups = 3
    /\ downs = 0
    /\ Len(commandHistory) = 3
    /\ historyIndex = 0
    /\ currentInput = commandHistory[1]

\* C4: after n ArrowUp presses that started live (1 <= n <= length) and
\* then n ArrowDown presses, nothing else in between, the session is live
\* with an empty buffer.
C4_UpDownRoundTrip ==
    (ups >= 1 /\ downs = ups) =>
        /\ historyIndex = -1
        /\ currentInput = ""

\* C4: three presses up and three down over three entries.
C4_Witness ==
    /\ lastKey = "ArrowDown"
    /\ ups = 3
    /\ downs = 3
    /\ Len(commandHistory) = 3

\* C5: an edit of the input field sets the recall cursor to live and the
\* buffer to the edited text, and the next ArrowUp recalls the last entry.
C5_EditReturnsToLive ==
    [][/\ lastKey' = "Change" =>
             /\ historyIndex' = -1
             /\ currentInput' \in EditTexts
       /\ (lastKey = "Change" /\ lastKey' = "ArrowUp" /\ Len(commandHistory) > 0) =>
             /\ historyIndex' = Len(commandHistory) - 1
             /\ currentInput' = commandHistory[Len(commandHistory)]
      ]_vars

\* C6: after every submission, from live or recalling and for any buffer
\* text, the buffer is empty and the recall cursor is the sentinel.
C6_SubmitClearsInput ==
    lastKey = "Enter" =>
        /\ currentInput = ""
        /\ historyIndex = -1

\* C6: a third submission that resubmitted the first entry, padded and in
\* capitals.
C6_Witness ==
    /\ lastKey = "Enter"
    /\ Len(commandHistory) = 3
    /\ commandHistory[1] = " CLEAR "
    /\ commandHistory[3] = commandHistory[1]

\* C7: every submission appends exactly the raw buffer text to the command
\* history, whatever the text, and keeps the earlier entries; no other event
\* changes the command history.
C7_HistoryAppendOnly ==
    [][IF lastKey' = "Enter"
       THEN commandHistory' = Append(commandHistory, currentInput)
       ELSE commandHistory' = commandHistory
      ]_vars

\* C7: a recognized command as typed, an unrecognized text and white space
\* were submitted.
C7_Witness ==
    /\ lastKey = "Enter"
    /\ commandHistory = << " CLEAR ", "B", " " >>

\* C8 as stated: submitting clear leaves the length of the command history
\* unchanged.
C8_ClearKeepsLength ==
    [][(lastKey' = "Enter" /\ trim(toLowerCase(currentInput)) = "clear") =>
          Len(commandHistory') = Len(commandHistory)
      ]_vars

\* C8, amended: submitting clear removes and changes no entry of the command
\* history; as every submission does, it appends its raw text, so the length
\* grows by exactly one.
C8_ClearKeepsEntries ==
    [][(lastKey' = "Enter" /\ trim(toLowerCase(currentInput)) = "clear") =>
          /\ Len(commandHistory') = Len(commandHistory) + 1
          /\ SubSeq(commandHistory', 1, Len(commandHistory)) = commandHistory
      ]_vars

\* C8: clear was submitted after two other submissions.
C8_Witness ==
    /\ lastKey = "Enter"
    /\ Len(commandHistory) = 3
    /\ commandHistory[1] = "B"
    /\ trim(toLowerCase(commandHistory[3])) = "clear"

\* C9: right after a submission that normalizes to clear the scrollback is
\* empty (the echo queued before the reset leaves no line) and the active
\* view is the one before the submission.
C9_ClearEmptiesScrollback ==
    [][(lastKey' = "Enter" /\ trim(toLowerCase(currentInput)) = "clear") =>
          /\ history' = << >>
          /\ currentPage' = currentPage
      ]_vars

\* C9: clear submitted in the blog view.
C9_Witness ==
    /\ lastKey = "Enter"
    /\ commandHistory[Len(commandHistory)] = " CLEAR "
    /\ history = << >>
    /\ currentPage = "blog"

\* C10: every submission queues the echo first: a command line made of the
\* prompt and the raw text.  Unless the submission is clear, which resets
\* the scrollback after the echo, the scrollback grows by the echo followed
\* by the submission's other lines, none of which is a command line.
C10_EchoFirst ==
    [][lastKey' = "Enter" =>
          LET echo == Line("command", Prompt \o currentInput) IN
          /\ Head(CommandUpdates(currentInput)) = [fn |-> "append", lines |-> <<echo>>]
          /\ trim(toLowerCase(currentInput)) # "clear" =>
                /\ Len(history') > Len(history)
                /\ SubSeq(history', 1, Len(history)) = history
                /\ history'[Len(history) + 1] = echo
                /\ \A i \in (Len(history) + 2)..Len(history') :
                       history'[i].type # "command"
      ]_vars

\* C10: an unrecognized text in capitals echoed as typed, then its error line.
C10_Witness ==
    /\ lastKey = "Enter"
    /\ Len(history) >= 2
    /\ history[Len(history) - 1] = Line("command", "visitor@yagiz-terminal:~$ B")
    /\ history[Len(history)].type = "error"

\* C11 as stated: a submission that trims to the empty string leaves the
\* scrollback as it was.
C11_EmptyLeavesScrollback ==
    [][(lastKey' = "Enter" /\ currentInput \in {"", " "}) =>
          history' = history
      ]_vars

\* C11, amended: a submission that is empty or trims to the empty string
\* appends its echo line and nothing else: no output line, no error line.
C11_EmptyEchoOnly ==
    [][(lastKey' = "Enter" /\ currentInput \in {"", " "}) =>
          /\ trim(toLowerCase(currentInput)) = ""
          /\ history' = Append(history, Line("command", Prompt \o currentInput))
      ]_vars

\* C11: white space submitted after another submission; its echo is the
\* last line.
C11_Witness ==
    /\ lastKey = "Enter"
    /\ Len(commandHistory) = 2
    /\ commandHistory[2] = " "
    /\ history # << >>
    /\ history[Len(history)] = Line("command", "visitor@yagiz-terminal:~$  ")

\* C12: a submission whose normalized text is not empty and is none of the
\* nine command names appends, after the echo, exactly one error line that
\* names the text as typed and points to help; the active view stays.
C12_UnknownCommand ==
    [][(/\ lastKey' = "Enter"
        /\ trim(toLowerCase(currentInput)) # ""
        /\ ~isValidCommand(currentInput)) =>
          /\ history' = history \o
                << Line("command", Prompt \o currentInput),
                   Line("error", "Command not found: " \o currentInput
                                     \o ". Type 'help' for available commands.") >>
          /\ currentPage' = currentPage
      ]_vars

\* C12: a text in capitals that is no command was submitted.
C12_Witness ==
    /\ lastKey = "Enter"
    /\ commandHistory = << "Foo" >>
    /\ history[Len(history)].type = "error"
    /\ currentPage = "home"

\* A help line that describes the command name.
Describes(line, name) ==
    /\ line.type = "help"
    /\ startsWith(trimStart(line.content), name \o " ")

\* C13: help appends, after the echo, one header line and then exactly one
\* description line for each of the nine command names; the view stays.
C13_HelpListsEveryCommand ==
    [][(lastKey' = "Enter" /\ trim(toLowerCase(currentInput)) = "help") =>
          LET n == Len(history) IN
          /\ Len(history') = n + 2 + Len(validCommands)
          /\ SubSeq(history', 1, n) = history
          /\ history'[n + 1] = Line("command", Prompt \o currentInput)
          /\ history'[n + 2].type = "output"
          /\ \A i \in 1..Len(validCommands) :
                Cardinality({j \in (n + 3)..Len(history') :
                                Describes(history'[j], validCommands[i])}) = 1
          /\ currentPage' = currentPage
      ]_vars

\* Raw texts and the command name each one normalizes to.
C14_Texts ==
    { <<"help", "help">>, <<" HELP ", "help">>,
      <<"whoami", "whoami">>, <<"WhoAmI", "whoami">>,
      <<"contact", "contact">>, <<"Contact ", "contact">>,
      <<"projects", "projects">>, <<" Projects", "projects">>,
      <<"blog", "blog">>, <<"BLOG", "blog">>,
      <<"home", "home">>, <<"Home ", "home">>,
      <<"clear", "clear">>, <<" Clear", "clear">>,
      <<"ls", "ls">>, <<"LS ", "ls">>,
      <<"pwd", "pwd">>, <<" pwd ", "pwd">> }

\* C14: a raw text that equals a command name after lower-casing and
\* trimming leaves, apart from the echo line, the scrollback and the active
\* view that submitting the name itself in the same state leaves; the name
\* is one entry of the command table.
C14_MatchingNormalizes ==
    [][lastKey' = "Enter" =>
          \A p \in C14_Texts :
              currentInput = p[1] =>
                  LET viaName == ApplyUpdates(history, CommandUpdates(p[2])) IN
                  /\ trim(toLowerCase(p[1])) = p[2]
                  /\ Cardinality({i \in 1..Len(validCommands) :
                                     validCommands[i] = p[2]}) = 1
                  /\ Len(history') = Len(viaName)
                  /\ \A i \in 1..Len(viaName) :
                         i # Len(history) + 1 => history'[i] = viaName[i]
                  /\ currentPage' = SwitchPage(p[2], currentPage)
      ]_vars

\* C14: help submitted padded and in capitals: the header and six lines
\* follow the echo of the raw text.
C14_Witness ==
    /\ lastKey = "Enter"
    /\ commandHistory = << " HELP " >>
    /\ Len(history) = Len(welcomeLines) + 8
    /\ history[Len(welcomeLines) + 1] = Line("command", "visitor@yagiz-terminal:~$  HELP ")
    /\ history[Len(welcomeLines) + 2] = Line("output", "Available commands:")

\* C15: projects, blog and home append exactly one notice after the echo and
\* set the active view to projects, blog and home, whatever it was; every
\* other submission leaves the active view as it is.
C15_ViewFollowsCommand ==
    [][lastKey' = "Enter" =>
          LET cmd == trim(toLowerCase(currentInput))
              echo == Line("command", Prompt \o currentInput)
          IN
          IF cmd = "projects"
          THEN /\ currentPage' = "projects"
               /\ history' = history \o << echo, Line("output", "Loading projects...") >>
          ELSE IF cmd = "blog"
          THEN /\ currentPage' = "blog"
               /\ history' = history \o << echo, Line("output", "Loading blog posts...") >>
          ELSE IF cmd = "home"
          THEN /\ currentPage' = "home"
               /\ history' = history \o << echo, Line("output", "Returning to home...") >>
          ELSE currentPage' = currentPage
      ]_vars

\* C15: blog, then home: the view is home again and the last line is home's
\* notice.
C15_Witness ==
    /\ lastKey = "Enter"
    /\ commandHistory = << "BLOG", " home " >>
    /\ currentPage = "home"
    /\ history[Len(history)] = Line("output", "Returning to home...")

\* What Tab does for the buffer, M being the command names that start with
\* the trimmed, lower-cased buffer.
TabOutcome ==
    LET prefix == trim(toLowerCase(currentInput))
        M == SelectSeq(validCommands, LAMBDA name : startsWith(name, prefix))
    IN
    IF Len(M) = 1
    THEN /\ currentInput' = M[1]
         /\ history' = history
    ELSE IF Len(M) > 1
    THEN /\ currentInput' = currentInput
         /\ history' = Append(history,
                Line("output", "Possible completions: " \o join(M, ", ")))
    ELSE /\ currentInput' = currentInput
         /\ history' = history

\* C16 as stated: Tab completes a single match, lists several matches in one
\* line and does nothing without a match, for every buffer, the empty one
\* included.
C16_TabCompletes ==
    [][lastKey' = "Tab" => TabOutcome]_vars

\* C16, amended: the same for every buffer that is not empty; with an empty
\* buffer Tab changes neither the buffer nor the scrollback.
C16_TabCompletesNonEmpty ==
    [][lastKey' = "Tab" =>
          IF currentInput = ""
          THEN /\ currentInput' = currentInput
               /\ history' = history
          ELSE TabOutcome
      ]_vars

\* C16: Tab on a prefix of two commands listed both.
C16_Witness ==
    /\ lastKey = "Tab"
    /\ currentInput = "C"
    /\ history[Len(history)] = Line("output", "Possible completions: contact, clear")

\* One sequence is the beginning of the other.
IsPrefix(a, b) ==
    /\ Len(a) <= Len(b)
    /\ SubSeq(b, 1, Len(a)) = a

\* C18: every event other than a submission of clear leaves the scrollback
\* it found as the beginning of the new scrollback: no line is changed,
\* moved or removed.
C18_ScrollbackAppendOnly ==
    [][(lastKey' = "Enter" /\ trim(toLowerCase(currentInput)) = "clear")
          \/ IsPrefix(history, history')
      ]_vars

\* C18: two submissions and a completions line after the welcome lines.
C18_Witness ==
    /\ IsPrefix(welcomeLines, history)
    /\ Len(commandHistory) = 2
    /\ TabLines(history) = 1
    /\ Len(history) > Len(welcomeLines) + 3

\* C17: the lines of the scrollback have pairwise distinct ids.
C17_DistinctIds ==
    \A i, j \in 1..Len(ids) : i # j => ids[i] # ids[j]

\* The text has no opening delimiter, or no line after the first begins a
\* delimiter, or the only such line is the last one and has no newline
\* after it.
C19_Malformed ==
    LET lines == split(rawContent, "\n") IN
    \/ ~startsWith(lines[1], "---")
    \/ \A i \in 2..Len(lines) : startsWith(lines[i], "---") => i = Len(lines)

\* C19: for a text whose delimiters are absent or malformed the parser
\* returns an empty header and the whole text as body.
C19_ParserNeverFails ==
    (parsed # NotParsed /\ C19_Malformed) =>
        parsed = [frontmatter |-> << >>, content |-> rawContent]

\* C19: a text whose closing delimiter is its last line, without a newline,
\* was parsed.
C19_Witness ==
    /\ rawContent = "---\ntitle: \"A\"\n---"
    /\ parsed.content = rawContent
    /\ parsed.frontmatter = << >>

\* The key and the value that a header line of HeaderLines stands for.
C20_Field(line) ==
    IF line = "title: \"A\""
    THEN [key |-> "title", value |-> StringValue("A")]
    ELSE [key |-> "tags", value |-> ArrayValue(<< "a", "b" >>)]

\* C20: for an opening delimiter line, a block of header lines, a closing
\* delimiter line and a body, the parser returns every field of the block
\* and exactly the text after the closing delimiter line as body.
C20_RoundTrip ==
    parsed # NotParsed =>
        LET lines == split(rawContent, "\n") IN
        \A c \in 3..(Len(lines) - 1) :
            (/\ lines[1] = "---"
             /\ lines[c] = "---"
             /\ \A i \in 2..(c - 1) : lines[i] \in HeaderLines) =>
                /\ DOMAIN parsed.frontmatter =
                       {C20_Field(lines[i]).key : i \in 2..(c - 1)}
                /\ \A i \in 2..(c - 1) :
                       parsed.frontmatter[C20_Field(lines[i]).key] =
                           C20_Field(lines[i]).value
                /\ parsed.content = join(SubSeq(lines, c + 1, Len(lines)), "\n")

\* C21: a text whose opening delimiter line is followed at once by the
\* closing delimiter line and then a body gives an empty header and, as
\* body, the text after the closing delimiter line.
C21_EmptyHeaderBlock ==
    parsed # NotParsed =>
        LET lines == split(rawContent, "\n") IN
        (Len(lines) >= 3 /\ lines[1] = "---" /\ lines[2] = "---") =>
            /\ parsed.frontmatter = << >>
            /\ parsed.content = join(SubSeq(lines, 3, Len(lines)), "\n")

\* The header lines between the delimiter lines of a text of HeaderTexts.
C22_Block ==
    LET lines == split(rawContent, "\n") IN SubSeq(lines, 2, Len(lines) - 2)

\* What each line of HeaderRuleLines stores: has is FALSE for a line that
\* stores nothing.
C22_Entry(line) ==
    CASE line = "title: \"A\"" -> [has |-> TRUE, key |-> "title", value |-> StringValue("A")]
      [] line = "title: 'B'" -> [has |-> TRUE, key |-> "title", value |-> StringValue("B")]
      [] line = "tags: [a, \"b\" ,'c']" ->
             [has |-> TRUE, key |-> "tags", value |-> ArrayValue(<< "a", "b", "c" >>)]
      [] line = " time :  10:30 " -> [has |-> TRUE, key |-> "time", value |-> StringValue("10:30")]
      [] line = "tags: plain" -> [has |-> TRUE, key |-> "tags", value |-> StringValue("plain")]
      [] OTHER -> [has |-> FALSE, key |-> "", value |-> StringValue("")]

\* C22 as stated: every header line that contains a colon is split at the
\* first colon into a trimmed key and a trimmed value (quotes removed, a
\* bracketed value a list, any other a string); a line without a colon adds
\* nothing; the last occurrence of a key wins.
C22_HeaderLineRuleAsStated ==
    parsed # NotParsed =>
        LET block == C22_Block
            \* a line that begins with the colon: an empty key and the rest
            C22_EntryAsStated(line) ==
                IF line = ":x"
                THEN [has |-> TRUE, key |-> "", value |-> StringValue("x")]
                ELSE C22_Entry(line)
            at == {i \in 1..Len(block) : C22_EntryAsStated(block[i]).has}
        IN
        /\ DOMAIN parsed.frontmatter = {C22_EntryAsStated(block[i]).key : i \in at}
        /\ \A i \in at :
               (\A j \in at : j > i =>
                    C22_EntryAsStated(block[j]).key # C22_EntryAsStated(block[i]).key) =>
                   parsed.frontmatter[C22_EntryAsStated(block[i]).key] =
                       C22_EntryAsStated(block[i]).value

\* C22, amended: the same for every header line whose first colon is not
\* its first character; a line without a colon and a line that begins with
\* a colon add nothing.
C22_HeaderLineRule ==
    parsed # NotParsed =>
        LET block == C22_Block
            at == {i \in 1..Len(block) : C22_Entry(block[i]).has}
        IN
        /\ DOMAIN parsed.frontmatter = {C22_Entry(block[i]).key : i \in at}
        /\ \A i \in at :
               (\A j \in at : j > i =>
                    C22_Entry(block[j]).key # C22_Entry(block[i]).key) =>
                   parsed.frontmatter[C22_Entry(block[i]).key] =
                       C22_Entry(block[i]).value

\* C22: a quoted title, a line that begins with a colon, and the title
\* again: the second title is stored, and nothing else.
C22_Witness ==
    /\ rawContent = "---\ntitle: \"A\"\n:x\ntitle: 'B'\n---\nBODY"
    /\ parsed.content = "BODY"
    /\ DOMAIN parsed.frontmatter = { "title" }
    /\ parsed.frontmatter["title"] = StringValue("B")

\* C27: the blog view's navigate-back button sets the active view to home
\* and leaves the scrollback, the command history, the recall cursor and
\* the input buffer as they are.
C27_NavigateBackFrame ==
    [][lastKey' = "NavigateBack" =>
          /\ currentPage' = "home"
          /\ history' = history
          /\ commandHistory' = commandHistory
          /\ historyIndex' = historyIndex
          /\ currentInput' = currentInput
      ]_vars

\* C27: back at home by the button after blog was submitted: the last line
\* is still blog's notice and blog is the only history entry.
C27_Witness ==
    /\ lastKey = "NavigateBack"
    /\ currentPage = "home"
    /\ commandHistory = << "blog" >>
    /\ history[Len(history)] = Line("output", "Loading blog posts...")

\* C28: Tab leaves the command history, the recall cursor and the active
\* view as they are; with an empty buffer it leaves everything; with a
\* buffer of white space it appends one line that lists all nine commands
\* and leaves the buffer.
C28_TabFrame ==
    [][lastKey' = "Tab" =>
          /\ commandHistory' = commandHistory
          /\ historyIndex' = historyIndex
          /\ currentPage' = currentPage
          /\ currentInput = "" => session' = session
          /\ currentInput = " " =>
                 /\ currentInput' = " "
                 /\ history' = Append(history, Line("output",
                        "Possible completions: help, whoami, contact, projects, blog, home, clear, ls, pwd"))
      ]_vars

\* C28: Tab on a recalled buffer of white space listed all nine commands;
\* the recall cursor is still on the entry.
C28_Witness ==
    /\ lastKey = "Tab"
    /\ currentInput = " "
    /\ historyIndex = 0
    /\ history[Len(history)].content =
           "Possible completions: help, whoami, contact, projects, blog, home, clear, ls, pwd"

\* C29: submitting a text that isValidCommand accepts appends no error
\* line, and a Tab that finds a single match leaves a text in the buffer
\* that isValidCommand accepts.
C29_HighlightAgreesWithDispatch ==
    [][/\ (lastKey' = "Enter" /\ isValidCommand(currentInput)) =>
              \A i \in 1..Len(history') :
                  history'[i].type = "error" => (i <= Len(history) /\ history[i] = history'[i])
       /\ (/\ lastKey' = "Tab"
           /\ currentInput # ""
           /\ Len(SelectSeq(<< "help", "whoami", "contact", "projects", "blog",
                               "home", "clear", "ls", "pwd" >>,
                            LAMBDA name : startsWith(name, trim(toLowerCase(currentInput))))) = 1) =>
              isValidCommand(currentInput')
      ]_vars

\* C29: a padded command that isValidCommand accepts was submitted: its
\* output is the last line and no error line was appended.
C29_Witness ==
    /\ lastKey = "Enter"
    /\ Len(commandHistory) = 1
    /\ isValidCommand(commandHistory[1])
    /\ commandHistory[1] = " pwd "
    /\ history[Len(history)] = Line("output", "/home/yagiz/personal-website")
    /\ \A i \in 1..Len(history) : history[i].type # "error"

\* The fields the record of a source text holds: from its header where
\* the header has them, the defaults elsewhere.  emptyTitle is the title of
\* the source whose header has the title "".
C23_Fields(slug, text, emptyTitle) ==
    LET none == StringValue("")
        dated(title, date) ==
            [slug |-> slug, title |-> StringValue(title), date |-> StringValue(date),
             readTime |-> none, excerpt |-> none, tags |-> ArrayValue(<< >>)]
    IN
    CASE text = Dated15 ->
             [slug |-> slug, title |-> StringValue("Building"),
              date |-> StringValue("2024-01-15"), readTime |-> StringValue("5 min read"),
              excerpt |-> StringValue("Exploring"),
              tags |-> ArrayValue(<< "backend", "scalability" >>)]
      [] text = Dated08 -> dated("Optimizing", "2024-01-08")
      [] text = Dated20 -> dated("Security", "2023-12-20")
      [] text = EmptyTitle08 -> dated(emptyTitle, "2024-01-08")
      [] text = BadDate -> dated("Draft", "soon")
      [] text = NoFrontMatter -> dated(slug, "")

\* The record of the registry has these fields.
C23_Holds(post, fields) ==
    /\ post.slug = fields.slug
    /\ post.title = fields.title
    /\ post.date = fields.date
    /\ post.readTime = fields.readTime
    /\ post.excerpt = fields.excerpt
    /\ post.tags = fields.tags

\* C23 as stated: the record of every source keeps the slug and takes each
\* field from the header when the header has it, the default otherwise: a
\* title "" of the header is the title of the record.
C23_RegistryDefaultsAsStated ==
    (currentPage = "blog" /\ ~loading) =>
        \A i \in 1..Len(blogPosts) :
            blogPosts[i].content # Undefined =>
                \E j \in 1..Len(posts) :
                    /\ C23_Holds(posts[j],
                           C23_Fields(blogPosts[i].slug, blogPosts[i].content, ""))
                    /\ blogPosts[i].content = NoFrontMatter =>
                           posts[j].content = NoFrontMatter

\* C23, amended: each field is taken from the header when the header has
\* it and it is not the empty string, the default otherwise: with a title
\* "" in the header the title of the record is the slug.
C23_RegistryDefaults ==
    (currentPage = "blog" /\ ~loading) =>
        \A i \in 1..Len(blogPosts) :
            blogPosts[i].content # Undefined =>
                \E j \in 1..Len(posts) :
                    /\ C23_Holds(posts[j],
                           C23_Fields(blogPosts[i].slug, blogPosts[i].content,
                                      blogPosts[i].slug))
                    /\ blogPosts[i].content = NoFrontMatter =>
                           posts[j].content = NoFrontMatter

\* C23: a source with a full header, one with an empty title and one
\* without front matter were loaded.
C23_Witness ==
    /\ currentPage = "blog"
    /\ ~loading
    /\ Len(blogPosts) = 3
    /\ blogPosts[1].content = NoFrontMatter
    /\ blogPosts[2].content = EmptyTitle08
    /\ blogPosts[3].content = Dated15
    /\ Len(posts) = 3
    /\ \E j \in 1..3 :
           /\ posts[j].title = StringValue("building-scalable-backends")
           /\ posts[j].content = "# Notes"
    /\ \E j \in 1..3 : posts[j].title = StringValue("optimizing-database-queries")
    /\ \E j \in 1..3 : posts[j].tags = ArrayValue(<< "backend", "scalability" >>)

\* The dates of the sources that are valid, and their order in time.
C24_Rank(date) ==
    CASE date = StringValue("2024-01-15") -> 3
      [] date = StringValue("2024-01-08") -> 2
      [] date = StringValue("2023-12-20") -> 1
      [] OTHER -> 0

\* The place of a slug in the source list.
C24_Place(slug) == CHOOSE i \in 1..Len(blogSlugs) : blogSlugs[i] = slug

\* C24: when every record has a valid date the registry is in descending
\* order of date, and records of one date are in the order of the source
\* list.
C24_SortedByDate ==
    (/\ currentPage = "blog"
     /\ ~loading
     /\ \A j \in 1..Len(posts) : C24_Rank(posts[j].date) > 0) =>
        \A j, k \in 1..Len(posts) :
            j < k =>
                /\ C24_Rank(posts[j].date) >= C24_Rank(posts[k].date)
                /\ C24_Rank(posts[j].date) = C24_Rank(posts[k].date) =>
                       C24_Place(posts[j].slug) < C24_Place(posts[k].slug)

\* C24: three dated sources, the newest in the middle and the other two of
\* one date: the newest is first and the two keep their order.
C24_Witness ==
    /\ currentPage = "blog"
    /\ ~loading
    /\ Len(posts) = 3
    /\ blogPosts[1].content = Dated08
    /\ blogPosts[2].content = Dated15
    /\ blogPosts[3].content = EmptyTitle08
    /\ posts[1].slug = "optimizing-database-queries"
    /\ posts[2].slug = "building-scalable-backends"
    /\ posts[3].slug = "secure-api-design"

\* C25: every record whose date is missing or not a date comes after all
\* records that have a valid date.
C25_InvalidDatesLast ==
    (currentPage = "blog" /\ ~loading) =>
        \A j, k \in 1..Len(posts) :
            (C24_Rank(posts[j].date) = 0 /\ C24_Rank(posts[k].date) > 0) => k < j

\* C26: when the build is over the registry holds a record for exactly the
\* sources whose processing did not fail; a loading view can always end the
\* build, and the build always comes to its end: the loading flag becomes
\* false and stays false.
C26_FailureIsolated ==
    /\ []((currentPage = "blog" /\ loading) =>
              sortOutcomes(loadedPosts(blogPosts)) # {})
    /\ []((currentPage = "blog" /\ ~loading) =>
              /\ \A i \in 1..Len(blogPosts) :
                     (blogPosts[i].content # Undefined) <=>
                         (\E j \in 1..Len(posts) : posts[j].slug = blogPosts[i].slug)
              /\ Len(posts) = Cardinality({i \in 1..Len(blogPosts) :
                                              blogPosts[i].content # Undefined}))
    /\ <>[](~loading)

\* C26: the second of three sources failed; the other two are in the
\* registry and the view is past the loading screen.
C26_Witness ==
    /\ currentPage = "blog"
    /\ ~loading
    /\ Len(blogPosts) = 3
    /\ blogPosts[1].content = Dated20
    /\ blogPosts[2].content = Undefined
    /\ blogPosts[3].content = Dated15
    /\ Len(posts) = 2
    /\ posts[1].slug = "secure-api-design"
    /\ posts[2].slug = "building-scalable-backends"

\* C30: in a mounted blog view a selected post is a record of the registry
\* and loading is over; closePost returns to the list and leaves the
\* registry; a view that is entered again starts loading with no post
\* selected.
C30_BlogSelection ==
    /\ []((currentPage = "blog" /\ selectedPost # << >>) =>
              /\ ~loading
              /\ \E j \in 1..Len(posts) : posts[j] = selectedPost[1])
    /\ [][(/\ currentPage = "blog"
           /\ currentPage' = "blog"
           /\ selectedPost # << >>
           /\ selectedPost' = << >>) =>
              (posts' = posts /\ ~loading')
         ]_vars
    /\ [][(currentPage # "blog" /\ currentPage' = "blog") =>
              (loading' /\ selectedPost' = << >> /\ posts' = << >>)
         ]_vars

\* C30: the blog view was entered, left and entered again: it is loading
\* and no post is selected.
C30_Witness ==
    /\ commandHistory = << "blog", "home", "blog" >>
    /\ currentPage = "blog"
    /\ loading
    /\ selectedPost = << >>

====
